---- MODULE Spec2Model ----
(***************************************************************************)
(* FinanceBot (bot_final_corrigido.py): the per-user conversation state    *)
(* machine of the Telegram handlers, the purchase table and the three      *)
(* external clients (DiscountAPI, Shopee scraping, OpenAI completion).     *)
(*                                                                         *)
(* A text is a sequence of one-character strings, so that str.strip,       *)
(* str.split, str.replace and float() are computed character by character. *)
(* A handler activation is a record with a program position (pc); a step   *)
(* of the model runs a handler from one network call to the next.          *)
(***************************************************************************)
EXTENDS Integers, Sequences, FiniteSets, TLC

VARIABLES openai_client, user_data, purchases, tasks, hist, seen

vars == <<openai_client, user_data, purchases, tasks, hist, seen>>

(***************************************************************************)
(* Bounds of the model                                                     *)
(***************************************************************************)
\* longest text enumerated exhaustively by the purchase-parsing specification
MaxLen == 5
\* most rows the purchases table grows to
MaxPurchases == 2

Users == {1, 2}

\* handler activations that can exist at once
Slots == {1, 2}

\* Application.builder().build() (line 357) leaves concurrent_updates off:
\* the updates are handled one at a time, all of them in slot 1
Sequential == {1}

(***************************************************************************)
(* Python string operations on character sequences                         *)
(***************************************************************************)
WS == {" "}

RECURSIVE LStrip(_)
LStrip(s) ==
    IF s # <<>> /\ Head(s) \in WS THEN LStrip(Tail(s)) ELSE s

RECURSIVE RStrip(_)
RStrip(s) ==
    IF s # <<>> /\ s[Len(s)] \in WS THEN RStrip(SubSeq(s, 1, Len(s) - 1)) ELSE s

\* str.strip()
Strip(s) == RStrip(LStrip(s))

\* str.split('-') : the fields between the hyphens, empty fields included
RECURSIVE SplitAcc(_, _, _)
SplitAcc(s, cur, acc) ==
    IF s = <<>> THEN Append(acc, cur)
    ELSE IF Head(s) = "-" THEN SplitAcc(Tail(s), <<>>, Append(acc, cur))
    ELSE SplitAcc(Tail(s), Append(cur, Head(s)), acc)

Split(s) == SplitAcc(s, <<>>, <<>>)

\* [p.strip() for p in text.split('-')]
Parts(text) ==
    LET f == Split(text) IN [i \in 1..Len(f) |-> Strip(f[i])]

\* valor_str.replace(',', '.')
ReplaceComma(s) ==
    [i \in 1..Len(s) |-> IF s[i] = "," THEN "." ELSE s[i]]

(***************************************************************************)
(* float(): the literals Python accepts, over the characters of the model. *)
(* A decimal literal is digits, digits '.', digits '.' digits or '.'       *)
(* digits, with an optional sign; "nan" is accepted too and yields NaN.    *)
(* (Exponents, underscores, "inf" and "infinity" are accepted by Python as *)
(* well; none of their characters is drawn by the model.)                  *)
(***************************************************************************)
Digits == {"0", "1", "2", "3", "4", "5", "6", "7", "8", "9"}

DigitVal(c) ==
    CASE c = "0" -> 0 [] c = "1" -> 1 [] c = "2" -> 2 [] c = "3" -> 3
      [] c = "4" -> 4 [] c = "5" -> 5 [] c = "6" -> 6 [] c = "7" -> 7
      [] c = "8" -> 8 [] c = "9" -> 9

AllDigits(s) == \A i \in 1..Len(s) : s[i] \in Digits

DotAt(s) ==
    IF \E i \in 1..Len(s) : s[i] = "."
    THEN CHOOSE i \in 1..Len(s) : s[i] = "." /\ \A j \in 1..(i - 1) : s[j] # "."
    ELSE 0

IntPart(s) == IF DotAt(s) = 0 THEN s ELSE SubSeq(s, 1, DotAt(s) - 1)

FracPart(s) == IF DotAt(s) = 0 THEN <<>> ELSE SubSeq(s, DotAt(s) + 1, Len(s))

\* an unsigned decimal literal
IsDecimal(s) ==
    /\ AllDigits(IntPart(s))
    /\ AllDigits(FracPart(s))
    /\ Len(IntPart(s)) + Len(FracPart(s)) > 0

Unsigned(s) == IF s # <<>> /\ Head(s) \in {"+", "-"} THEN Tail(s) ELSE s

IsNaNLiteral(s) == Unsigned(s) = <<"n", "a", "n">>

\* float(s) returns instead of raising ValueError
FloatParses(s) == IsDecimal(Unsigned(s)) \/ IsNaNLiteral(s)

RECURSIVE DigitsVal(_)
DigitsVal(s) ==
    IF s = <<>> THEN 0
    ELSE 10 * DigitsVal(SubSeq(s, 1, Len(s) - 1)) + DigitVal(s[Len(s)])

\* a number m / 10^e in lowest terms (no trailing zero in the fraction)
RECURSIVE Normal(_, _)
Normal(m, e) ==
    IF e > 0 /\ m % 10 = 0 THEN Normal(m \div 10, e - 1) ELSE <<m, e>>

NaN == [nan |-> TRUE, neg |-> FALSE, m |-> 0, e |-> 0]

Number(neg, m, e) ==
    [nan |-> FALSE, neg |-> neg /\ m # 0, m |-> Normal(m, e)[1], e |-> Normal(m, e)[2]]

\* the value of float(s), for s that parses
FloatValue(s) ==
    IF IsNaNLiteral(s) THEN NaN
    ELSE LET u == Unsigned(s)
         IN Number(s # <<>> /\ Head(s) = "-",
                   DigitsVal(IntPart(u) \o FracPart(u)),
                   Len(FracPart(u)))

(***************************************************************************)
(* Arithmetic and formatting of the stored values. No stored value is      *)
(* negative: a minus sign is a hyphen, at which the text is split (line    *)
(* 240). Sums are exact, as Python's are for amounts with cents.           *)
(***************************************************************************)
RECURSIVE Pow10(_)
Pow10(n) == IF n = 0 THEN 1 ELSE 10 * Pow10(n - 1)

\* f"{x:.2f}": the units and the two decimals of x rounded to cents, ties to
\* the even cent
Fmt2(x) ==
    LET d == Pow10(IF x.e > 2 THEN x.e - 2 ELSE 0)
        q == IF x.e > 2 THEN x.m \div d ELSE x.m * Pow10(2 - x.e)
        r == IF x.e > 2 THEN x.m % d ELSE 0
        cents == IF 2 * r > d \/ (2 * r = d /\ q % 2 = 1) THEN q + 1 ELSE q
    IN <<cents \div 100, cents % 100>>

(***************************************************************************)
(* Inputs                                                                  *)
(***************************************************************************)
\* the characters of the exhaustively enumerated texts
Alphabet == {"a", "n", "1", "-", ",", " "}

RECURSIVE SeqsUpTo(_)
SeqsUpTo(n) ==
    IF n = 0 THEN {<<>>}
    ELSE LET shorter == SeqsUpTo(n - 1)
         IN shorter \cup {Append(s, c) : s \in {x \in shorter : Len(x) = n - 1}, c \in Alphabet}

\* every non-empty text of at most MaxLen characters
AllTexts == SeqsUpTo(MaxLen) \ {<<>>}

\* "tv - 5,50 - lar"
TextComma == <<"t", "v", " ", "-", " ", "5", ",", "5", "0", " ", "-", " ", "l", "a", "r">>
\* "a-b - 1 - c"
TextHyphen == <<"a", "-", "b", " ", "-", " ", "1", " ", "-", " ", "c">>
\* "a - nan - b"
TextNaN == <<"a", " ", "-", " ", "n", "a", "n", " ", "-", " ", "b">>
\* "a - x - b"
TextWord == <<"a", " ", "-", " ", "x", " ", "-", " ", "b">>
\* "a - 1"
TextTwo == <<"a", " ", "-", " ", "1">>

\* the texts of the router specification
Texts == {TextComma, TextHyphen, TextNaN, TextWord, TextTwo}

\* callback_data of the six menu buttons (lines 197-202), and a key that is
\* none of them (CallbackQueryHandler is registered without a pattern)
MenuKeys == {"deals", "shopee_search", "add_purchase", "my_expenses", "ask_ai", "help"}

Keys == MenuKeys \cup {"other"}

\* results of the external calls, as the code tells them apart
SearchOutcomes == {"links", "no_links", "error"}

DealsOutcomes == {"deals", "no_deals", "error"}

CompletionOutcomes == {"answer", "error"}

(***************************************************************************)
(* State                                                                   *)
(***************************************************************************)
\* context.user_data.get('state'); "None" is Python's None
States == {"None", "waiting_shopee_term", "waiting_purchase", "waiting_ai_prompt"}

Msg(kind, args) == [kind |-> kind, args |-> args]

NoMsg == Msg("", <<>>)

Idle ==
    [handler |-> "", user |-> 0, text |-> <<>>, data |-> "", pc |-> "idle",
     state |-> "None", db0 |-> <<>>, nth |-> -1,
     out |-> NoMsg, sent |-> <<>>, calls |-> <<>>, acked |-> FALSE,
     request |-> <<>>, failed |-> FALSE, raised |-> FALSE]

\* a new activation of a handler for user u: state and db0 record the user's
\* pending state and the table when the update is dispatched
Activation(h, u, text, data) ==
    [Idle EXCEPT !.handler = h, !.user = u, !.text = text, !.data = data,
                 !.state = user_data[u], !.db0 = purchases]

\* the Purchase table (lines 35-42); id is the autoincrement primary key and
\* date the position of the commit in time
Purchase(u, produto, valor, categoria) ==
    [id |-> Len(purchases) + 1, user_id |-> u, product |-> produto,
     value |-> valor, category |-> categoria, date |-> Len(purchases) + 1]

\* faulty variant: the query has no filter
PurchasesOf_All(u) == purchases

\* session.query(Purchase).filter_by(user_id=user_id)
PurchasesOf(u) == SelectSeq(purchases, LAMBDA p : p.user_id = u)

\* SQLite stores a NaN as NULL, so the row of a purchase saved with the
\* value NaN is read back with p.value None
ValueIsNone(p) == p.value.nan

\* the most decimals of a value of the rows
Decimals(rows) ==
    IF rows = <<>> THEN 0
    ELSE CHOOSE e \in {rows[i].value.e : i \in 1..Len(rows)} :
             \A i \in 1..Len(rows) : rows[i].value.e <= e

\* the values of the rows added up, in units of 10^-e
RECURSIVE SumScaled(_, _)
SumScaled(rows, e) ==
    IF rows = <<>> THEN 0
    ELSE SumScaled(SubSeq(rows, 1, Len(rows) - 1), e)
           + rows[Len(rows)].value.m * Pow10(e - rows[Len(rows)].value.e)

\* sum(p.value for p in purchases) (lines 160, 332)
Sum(rows) == Number(FALSE, SumScaled(rows, Decimals(rows)), Decimals(rows))

\* sum() or the :.2f format of a row raises TypeError on a value None
\* (lines 157, 332)
RaisesTypeError(rows) == \E i \in 1..Len(rows) : ValueIsNone(rows[i])

\* order_by(Purchase.date.desc()) (line 325): the row at place n is the one
\* with n rows at or before it, rows of one date staying in table order
OrderByDateDesc(rows) ==
    [n \in 1..Len(rows) |->
        rows[CHOOSE j \in 1..Len(rows) :
                 Cardinality({i \in 1..Len(rows) :
                                 \/ rows[i].date > rows[j].date
                                 \/ rows[i].date = rows[j].date /\ i <= j}) = n]]

\* purchases[:5] (line 343)
ListLimit == 5

\* the line of a purchase in a message (lines 157, 344)
Line(p) == <<p.product, Fmt2(p.value), p.category, p.date>>

\* the summary of lines 332-344: total, count and the lines of the first
\* ListLimit rows
message_text(rows) ==
    LET shown == SubSeq(rows, 1, IF Len(rows) < ListLimit THEN Len(rows) ELSE ListLimit)
    IN <<Fmt2(Sum(rows)), Len(rows), [i \in 1..Len(shown) |-> Line(shown[i])]>>

\* context_data of analisar_com_ia (lines 152-165)
context_data(rows) ==
    IF rows = <<>> THEN <<>>
    ELSE <<Fmt2(Sum(rows)), Len(rows), [i \in 1..Len(rows) |-> Line(rows[i])]>>

\* what the properties remember of the past of each user (no handler reads
\* it): sel is the key of the user's latest prompt-setting selection that no
\* text has answered yet, exp the user's my_expenses answers, the last two,
\* since the table was last written
NoneSeen == [u \in Users |-> [sel |-> "", exp |-> <<>>]]

Init ==
    /\ openai_client \in BOOLEAN
    /\ user_data = [u \in Users |-> "None"]
    /\ purchases = <<>>
    /\ tasks = [k \in Slots |-> Idle]
    /\ hist = [u \in Users |-> -1]
    /\ seen = NoneSeen

\* slot k is free: no handler runs in it
CanDispatch(k) == tasks[k].pc \in {"idle", "done"}

(***************************************************************************)
(* Commands /start and /help (lines 194-222)                               *)
(***************************************************************************)
\* faulty variant: /start also forgets the pending prompt
start_Resets(k, u) ==
    /\ CanDispatch(k)
    /\ tasks' = [tasks EXCEPT ![k] =
                   [Activation("start", u, <<>>, "") EXCEPT
                       !.pc = "reply", !.out = Msg("menu", <<>>)]]
    /\ user_data' = [user_data EXCEPT ![u] = "None"]
    /\ UNCHANGED <<openai_client, purchases, hist>>

\* start: builds the keyboard and sends the menu
start(k, u) ==
    /\ CanDispatch(k)
    /\ tasks' = [tasks EXCEPT ![k] =
                   [Activation("start", u, <<>>, "") EXCEPT
                       !.pc = "reply", !.out = Msg("menu", <<>>)]]
    /\ UNCHANGED <<openai_client, user_data, purchases, hist>>

\* help_command as the handler of /help: sends the guide
help_command(k, u) ==
    /\ CanDispatch(k)
    /\ tasks' = [tasks EXCEPT ![k] =
                   [Activation("help_command", u, <<>>, "") EXCEPT
                       !.pc = "reply", !.out = Msg("help", <<>>)]]
    /\ UNCHANGED <<openai_client, user_data, purchases, hist>>

(***************************************************************************)
(* handle_message (lines 224-286)                                          *)
(***************************************************************************)
\* faulty variant: the assignment is missing
ClearState_Keeps(u) == user_data

\* context.user_data['state'] = None (lines 232, 237, 274)
ClearState(u) == [user_data EXCEPT ![u] = "None"]

\* faulty variant: extra fields are tolerated
ThreeParts_AtLeast(parts) == Len(parts) >= 3

\* len(parts) == 3 (line 242)
ThreeParts(parts) == Len(parts) = 3

\* the branch of lines 240-271 a text takes: "saved" when the row is
\* committed, "bad_value" when float() raises ValueError, "bad_format" when
\* the text has not three fields
PurchaseBranch(text) ==
    LET parts == Parts(text)
    IN IF ThreeParts(parts)
       THEN IF FloatParses(ReplaceComma(parts[2])) THEN "saved" ELSE "bad_value"
       ELSE "bad_format"

\* float(valor_str.replace(',', '.')) (line 246)
Valor(text) == FloatValue(ReplaceComma(Parts(text)[2]))

\* the row of lines 248-253
NewPurchase(u, text) ==
    Purchase(u, Parts(text)[1], Valor(text), Parts(text)[3])

\* the reply of the purchase branch (lines 258-271)
PurchaseReply(text) ==
    CASE PurchaseBranch(text) = "saved" ->
           Msg("purchase_saved", <<Parts(text)[1], Valor(text), Parts(text)[3]>>)
      [] PurchaseBranch(text) = "bad_value" -> Msg("invalid_value", <<>>)
      [] OTHER -> Msg("invalid_format", <<>>)

\* text events of the user since the user's last shopee_search selection
\* (-1: none is pending in the history), counted to 2
CountText(h) == IF h = -1 THEN -1 ELSE IF h < 2 THEN h + 1 ELSE 2

\* faulty variant: the text is passed to the assistant without the test of
\* openai_client
Fallback_AlwaysAsks(act, client) ==
    [act EXCEPT !.pc = "progress", !.out = Msg("ai_progress", <<>>)]

\* the else branch of lines 279-286, for a text found with no pending state
Fallback(act, client) ==
    IF client
    THEN [act EXCEPT !.pc = "progress", !.out = Msg("ai_progress", <<>>)]
    ELSE [act EXCEPT !.pc = "reply", !.out = Msg("unrecognized", <<>>)]

\* the handler from its entry to its first network call, client being what
\* it finds in openai_client
handle_message_with(k, u, t, client) ==
    LET text == Strip(t)
        state == user_data[u]
        act == [Activation("handle_message", u, text, "") EXCEPT
                   !.nth = CountText(hist[u])]
    IN /\ CanDispatch(k)
       /\ hist' = [hist EXCEPT ![u] = CountText(hist[u])]
       /\ UNCHANGED openai_client
       /\ CASE state = "waiting_shopee_term" ->
                 /\ user_data' = ClearState(u)
                 /\ purchases' = purchases
                 /\ tasks' = [tasks EXCEPT ![k] =
                       [act EXCEPT !.pc = "search", !.calls = <<"search">>]]
            [] state = "waiting_purchase" ->
                 /\ user_data' = ClearState(u)
                 /\ IF PurchaseBranch(text) = "saved"
                    THEN /\ Len(purchases) < MaxPurchases
                         /\ purchases' = Append(purchases, NewPurchase(u, text))
                         /\ tasks' = [tasks EXCEPT ![k] =
                               [act EXCEPT !.pc = "reply", !.calls = <<"db_write">>,
                                           !.out = PurchaseReply(text)]]
                    ELSE /\ purchases' = purchases
                         /\ tasks' = [tasks EXCEPT ![k] =
                               [act EXCEPT !.pc = "reply", !.out = PurchaseReply(text)]]
            [] state = "waiting_ai_prompt" ->
                 /\ user_data' = ClearState(u)
                 /\ purchases' = purchases
                 /\ tasks' = [tasks EXCEPT ![k] =
                       [act EXCEPT !.pc = "progress", !.out = Msg("ai_progress", <<>>)]]
            [] OTHER ->
                 /\ UNCHANGED <<user_data, purchases>>
                 /\ tasks' = [tasks EXCEPT ![k] = Fallback(act, client)]

handle_message(k, u, t) == handle_message_with(k, u, t, openai_client)

\* faulty variant: the state is cleared when the search has returned
buscar_shopee_scraping_Clears(k, outcome) ==
    /\ tasks[k].pc = "search"
    /\ tasks' = [tasks EXCEPT ![k].pc = "reply",
                              ![k].failed = (outcome = "error"),
                              ![k].out =
                                 CASE outcome = "links" -> Msg("shopee_results", <<>>)
                                   [] outcome = "no_links" -> Msg("shopee_fallback", <<>>)
                                   [] OTHER -> Msg("shopee_error", <<>>)]
    /\ user_data' = ClearState(tasks[k].user)
    /\ UNCHANGED <<openai_client, purchases, hist>>

\* buscar_shopee_scraping returns (lines 113-139) and its result is sent
buscar_shopee_scraping(k, outcome) ==
    /\ tasks[k].pc = "search"
    /\ tasks' = [tasks EXCEPT ![k].pc = "reply",
                              ![k].failed = (outcome = "error"),
                              ![k].out =
                                 CASE outcome = "links" -> Msg("shopee_results", <<>>)
                                   [] outcome = "no_links" -> Msg("shopee_fallback", <<>>)
                                   [] OTHER -> Msg("shopee_error", <<>>)]
    /\ UNCHANGED <<openai_client, user_data, purchases, hist>>

\* the "Analisando..." notice is delivered and analisar_com_ia runs to its
\* completion request (lines 143-180); the TypeError of line 157 is raised
\* outside the try of line 179 and ends the handler
analisar_com_ia(k) ==
    /\ tasks[k].pc = "progress"
    /\ tasks' = [tasks EXCEPT ![k] =
          IF ~openai_client
          THEN [@ EXCEPT !.sent = Append(@, tasks[k].out), !.pc = "reply",
                         !.out = Msg("ai_disabled", <<>>)]
          ELSE IF RaisesTypeError(PurchasesOf(tasks[k].user))
          THEN [@ EXCEPT !.sent = Append(@, tasks[k].out), !.pc = "done",
                         !.out = NoMsg, !.raised = TRUE,
                         !.calls = @ \o <<"db_read">>]
          ELSE [@ EXCEPT !.sent = Append(@, tasks[k].out), !.pc = "completion",
                         !.out = NoMsg,
                         !.calls = @ \o <<"db_read", "completion">>,
                         !.request = <<tasks[k].text,
                                       context_data(PurchasesOf(tasks[k].user))>>]]
    /\ UNCHANGED <<openai_client, user_data, purchases, hist>>

\* faulty variant: an error of the completion request is swallowed without a message
completion_returns_Silent(k, outcome) ==
    /\ tasks[k].pc = "completion"
    /\ tasks' = [tasks EXCEPT ![k].pc = IF outcome = "answer" THEN "reply" ELSE "done",
                              ![k].failed = (outcome = "error"),
                              ![k].out = IF outcome = "answer"
                                         THEN Msg("ai_answer", <<>>)
                                         ELSE NoMsg]
    /\ UNCHANGED <<openai_client, user_data, purchases, hist>>

\* the completion request returns or raises (lines 180-190)
completion_returns(k, outcome) ==
    /\ tasks[k].pc = "completion"
    /\ tasks' = [tasks EXCEPT ![k].pc = "reply",
                              ![k].failed = (outcome = "error"),
                              ![k].out = IF outcome = "answer"
                                         THEN Msg("ai_answer", <<>>)
                                         ELSE Msg("ai_error", <<>>)]
    /\ UNCHANGED <<openai_client, user_data, purchases, hist>>

\* the last reply_text / edit_message_text of a handler is delivered and the
\* handler returns
reply_sent(k) ==
    /\ tasks[k].pc = "reply"
    /\ tasks' = [tasks EXCEPT ![k].sent = Append(@, tasks[k].out),
                              ![k].out = NoMsg,
                              ![k].pc = "done"]
    /\ UNCHANGED <<openai_client, user_data, purchases, hist>>

(***************************************************************************)
(* handle_callback (lines 289-349)                                         *)
(***************************************************************************)
\* the handler from its entry to query.answer() (lines 291-292)
handle_callback(k, u, data) ==
    /\ CanDispatch(k)
    /\ tasks' = [tasks EXCEPT ![k] =
                   [Activation("handle_callback", u, <<>>, data) EXCEPT !.pc = "answer"]]
    /\ UNCHANGED <<openai_client, user_data, purchases, hist>>

\* faulty variant: ask_ai sets its prompt without looking at openai_client
SelectionState_AskAiAlways(data, cur, client) ==
    CASE data = "shopee_search" -> "waiting_shopee_term"
      [] data = "add_purchase" -> "waiting_purchase"
      [] data = "ask_ai" -> "waiting_ai_prompt"
      [] OTHER -> cur

\* faulty variant: a prompt that is pending is not replaced
SelectionState_KeepsPending(data, cur, client) ==
    IF cur # "None" THEN cur
    ELSE CASE data = "shopee_search" -> "waiting_shopee_term"
           [] data = "add_purchase" -> "waiting_purchase"
           [] data = "ask_ai" -> IF client THEN "waiting_ai_prompt" ELSE cur
           [] OTHER -> cur

\* faulty variant: the selections that set no prompt drop the pending one
SelectionState_Resets(data, cur, client) ==
    CASE data = "shopee_search" -> "waiting_shopee_term"
      [] data = "add_purchase" -> "waiting_purchase"
      [] data = "ask_ai" -> IF client THEN "waiting_ai_prompt" ELSE cur
      [] OTHER -> "None"

\* the user's pending state after the branch of a selection, cur being the
\* state before it (lines 302, 306, 314-317; the other branches assign none)
SelectionState(data, cur, client) ==
    CASE data = "shopee_search" -> "waiting_shopee_term"
      [] data = "add_purchase" -> "waiting_purchase"
      [] data = "ask_ai" -> IF client THEN "waiting_ai_prompt" ELSE cur
      [] OTHER -> cur

\* whether the branch assigns context.user_data['state']
SetsState(data, client) ==
    data \in {"shopee_search", "add_purchase"} \/ (data = "ask_ai" /\ client)

\* faulty variant: the summary is shown only while no prompt is pending
SelectionReply_WhenIdle(data, u, client) ==
    CASE data = "shopee_search" -> Msg("ask_search_term", <<>>)
      [] data = "add_purchase" -> Msg("ask_purchase", <<>>)
      [] data = "ask_ai" ->
           IF client THEN Msg("ask_question", <<>>) ELSE Msg("ai_disabled", <<>>)
      [] data = "my_expenses" ->
           IF PurchasesOf(u) = <<>> \/ user_data[u] # "None"
           THEN Msg("no_purchases", <<>>)
           ELSE Msg("expenses", message_text(OrderByDateDesc(PurchasesOf(u))))
      [] data = "help" -> Msg("help", <<>>)
      [] OTHER -> NoMsg

\* faulty variant: without the key the summary is replaced by the disabled
\* text of the assistant
SelectionReply_NeedsKey(data, u, client) ==
    CASE data = "shopee_search" -> Msg("ask_search_term", <<>>)
      [] data = "add_purchase" -> Msg("ask_purchase", <<>>)
      [] data = "ask_ai" ->
           IF client THEN Msg("ask_question", <<>>) ELSE Msg("ai_disabled", <<>>)
      [] data = "my_expenses" ->
           IF ~client THEN Msg("ai_disabled", <<>>)
           ELSE IF PurchasesOf(u) = <<>> THEN Msg("no_purchases", <<>>)
           ELSE Msg("expenses", message_text(OrderByDateDesc(PurchasesOf(u))))
      [] data = "help" -> Msg("help", <<>>)
      [] OTHER -> NoMsg

\* the message a selection edits into the menu or sends, for the branches
\* that make no external request (lines 301-349)
SelectionReply(data, u, client) ==
    CASE data = "shopee_search" -> Msg("ask_search_term", <<>>)
      [] data = "add_purchase" -> Msg("ask_purchase", <<>>)
      [] data = "ask_ai" ->
           IF client THEN Msg("ask_question", <<>>) ELSE Msg("ai_disabled", <<>>)
      [] data = "my_expenses" ->
           IF PurchasesOf(u) = <<>> THEN Msg("no_purchases", <<>>)
           ELSE Msg("expenses", message_text(OrderByDateDesc(PurchasesOf(u))))
      [] data = "help" -> Msg("help", <<>>)
      [] OTHER -> NoMsg

\* query.answer() has returned: the branch on query.data up to its request
\* or its message (lines 294-349), client being what it finds in
\* openai_client
callback_branch_with(k, client) ==
    LET u == tasks[k].user
        data == tasks[k].data
    IN /\ tasks[k].pc = "answer"
       /\ user_data' = [user_data EXCEPT
                           ![u] = SelectionState(data, user_data[u], client)]
       /\ hist' = [hist EXCEPT
                      ![u] = IF SetsState(data, client)
                             THEN (IF data = "shopee_search" THEN 0 ELSE -1)
                             ELSE @]
       /\ tasks' = [tasks EXCEPT ![k] =
             CASE data = "deals" ->
                    [@ EXCEPT !.acked = TRUE, !.pc = "deals", !.calls = <<"deals">>]
               [] data = "my_expenses" ->
                    IF RaisesTypeError(PurchasesOf(u))
                    THEN [@ EXCEPT !.acked = TRUE, !.pc = "done", !.raised = TRUE,
                                   !.calls = <<"db_read">>]
                    ELSE [@ EXCEPT !.acked = TRUE, !.pc = "reply",
                                   !.calls = <<"db_read">>,
                                   !.out = SelectionReply(data, u, client)]
               [] data \in MenuKeys \ {"deals", "my_expenses"} ->
                    [@ EXCEPT !.acked = TRUE, !.pc = "reply",
                              !.out = SelectionReply(data, u, client)]
               [] OTHER ->
                    [@ EXCEPT !.acked = TRUE, !.pc = "done"]]
       /\ UNCHANGED <<openai_client, purchases>>

callback_branch(k) == callback_branch_with(k, openai_client)

\* faulty variant: the RequestException is not caught and ends the handler
buscar_discount_api_real_Raises(k, outcome) ==
    /\ tasks[k].pc = "deals"
    /\ tasks' = [tasks EXCEPT ![k].pc = IF outcome = "error" THEN "done" ELSE "reply",
                              ![k].failed = (outcome = "error"),
                              ![k].raised = (outcome = "error"),
                              ![k].out =
                                 CASE outcome = "deals" -> Msg("deals", <<>>)
                                   [] outcome = "no_deals" -> Msg("no_deals", <<>>)
                                   [] OTHER -> NoMsg]
    /\ UNCHANGED <<openai_client, user_data, purchases, hist>>

\* buscar_discount_api_real returns (lines 67-101) and its result is sent;
\* outcome "error" is a RequestException: timeout, connection error or the
\* HTTPError of raise_for_status
buscar_discount_api_real(k, outcome) ==
    /\ tasks[k].pc = "deals"
    /\ tasks' = [tasks EXCEPT ![k].pc = "reply",
                              ![k].failed = (outcome = "error"),
                              ![k].out =
                                 CASE outcome = "deals" -> Msg("deals", <<>>)
                                   [] outcome = "no_deals" -> Msg("no_deals", <<>>)
                                   [] OTHER -> Msg("deals_error", <<>>)]
    /\ UNCHANGED <<openai_client, user_data, purchases, hist>>

(***************************************************************************)
(* The router: updates are handled one at a time                           *)
(***************************************************************************)
Next ==
    \E k \in Sequential :
        \/ (\E u \in Users : start(k, u)) /\ UNCHANGED seen
        \/ (\E u \in Users : help_command(k, u)) /\ UNCHANGED seen
        \/ (\E u \in Users, t \in Texts : handle_message(k, u, t)) /\ UNCHANGED seen
        \/ (\E u \in Users, data \in Keys : handle_callback(k, u, data))
              /\ UNCHANGED seen
        \/ callback_branch(k) /\ UNCHANGED seen
        \/ (\E o \in SearchOutcomes : buscar_shopee_scraping(k, o)) /\ UNCHANGED seen
        \/ (\E o \in DealsOutcomes : buscar_discount_api_real(k, o)) /\ UNCHANGED seen
        \/ analisar_com_ia(k) /\ UNCHANGED seen
        \/ (\E o \in CompletionOutcomes : completion_returns(k, o)) /\ UNCHANGED seen
        \/ reply_sent(k) /\ UNCHANGED seen

Spec == Init /\ [][Next]_vars

(***************************************************************************)
(* The purchase entry alone: every user has selected add_purchase and one  *)
(* text, any of AllTexts, is handled                                       *)
(***************************************************************************)
InitPurchase ==
    /\ openai_client \in BOOLEAN
    /\ user_data = [u \in Users |-> "waiting_purchase"]
    /\ purchases = <<>>
    /\ tasks = [k \in Slots |-> Idle]
    /\ hist = [u \in Users |-> -1]
    /\ seen = NoneSeen

NextPurchase ==
    \E k \in Sequential :
        \/ /\ tasks[k].pc = "idle"
           /\ \E u \in Users, t \in AllTexts : handle_message(k, u, t)
           /\ UNCHANGED seen
        \/ reply_sent(k) /\ UNCHANGED seen

SpecPurchase == InitPurchase /\ [][NextPurchase]_vars

(***************************************************************************)
(* The router with the past of each user recorded in seen                  *)
(***************************************************************************)
\* the last two elements of a sequence
LastTwo(q) == IF Len(q) > 2 THEN SubSeq(q, Len(q) - 1, Len(q)) ELSE q

\* a selection that asks for a text: search, add purchase, and ask AI when
\* the assistant is available
AsksForText(data) ==
    data \in {"shopee_search", "add_purchase"} \/ (data = "ask_ai" /\ openai_client)

\* seen after a text event of user u: the text answers the user's pending
\* selection, and a write to the table starts the answers of my_expenses anew
TextSeen(u) ==
    [v \in Users |->
        [sel |-> IF v = u THEN "" ELSE seen[v].sel,
         exp |-> IF purchases' # purchases THEN <<>> ELSE seen[v].exp]]

\* seen after the branch of the selection handled in slot k
BranchSeen(k) ==
    [seen EXCEPT
        ![tasks[k].user] =
            [sel |-> IF AsksForText(tasks[k].data) THEN tasks[k].data ELSE @.sel,
             exp |-> IF tasks[k].data = "my_expenses"
                     THEN LastTwo(Append(@.exp, [out |-> tasks'[k].out,
                                                 raised |-> tasks'[k].raised]))
                     ELSE @.exp]]

\* the texts of this specification: one that is saved with a value, one
\* that is saved without, one that is refused
TrackedTexts == {TextComma, TextNaN, TextTwo}

\* the user whose events this specification follows
Tracked == {1}

NextTrack ==
    \E k \in Sequential :
        \/ (\E u \in Tracked : start(k, u)) /\ UNCHANGED seen
        \/ (\E u \in Tracked : help_command(k, u)) /\ UNCHANGED seen
        \/ \E u \in Tracked, t \in TrackedTexts :
              handle_message(k, u, t) /\ seen' = TextSeen(u)
        \/ (\E u \in Tracked, data \in Keys : handle_callback(k, u, data))
              /\ UNCHANGED seen
        \/ callback_branch(k) /\ seen' = BranchSeen(k)
        \/ (\E o \in SearchOutcomes : buscar_shopee_scraping(k, o)) /\ UNCHANGED seen
        \/ (\E o \in DealsOutcomes : buscar_discount_api_real(k, o)) /\ UNCHANGED seen
        \/ analisar_com_ia(k) /\ UNCHANGED seen
        \/ (\E o \in CompletionOutcomes : completion_returns(k, o)) /\ UNCHANGED seen
        \/ reply_sent(k) /\ UNCHANGED seen

SpecTrack == Init /\ [][NextTrack]_vars

(***************************************************************************)
(* The router without the AI flows: no ask_ai selection, no text while no  *)
(* prompt is pending.                                                      *)
(***************************************************************************)
NextNoAI ==
    \E k \in Sequential :
        \/ (\E u \in Users : start(k, u)) /\ UNCHANGED seen
        \/ (\E u \in Users : help_command(k, u)) /\ UNCHANGED seen
        \/ \E u \in Users, t \in Texts :
              /\ user_data[u] # "None"
              /\ handle_message(k, u, t)
              /\ UNCHANGED seen
        \/ (\E u \in Users, data \in Keys \ {"ask_ai"} : handle_callback(k, u, data))
              /\ UNCHANGED seen
        \/ callback_branch(k) /\ UNCHANGED seen
        \/ (\E o \in SearchOutcomes : buscar_shopee_scraping(k, o)) /\ UNCHANGED seen
        \/ (\E o \in DealsOutcomes : buscar_discount_api_real(k, o)) /\ UNCHANGED seen
        \/ reply_sent(k) /\ UNCHANGED seen

SpecNoAI == Init /\ [][NextNoAI]_vars

\* the steps of NextNoAI as the handlers take them when they find client in
\* openai_client
NextNoAIWith(client) ==
    \E k \in Sequential :
        \/ (\E u \in Users : start(k, u)) /\ UNCHANGED seen
        \/ (\E u \in Users : help_command(k, u)) /\ UNCHANGED seen
        \/ \E u \in Users, t \in Texts :
              /\ user_data[u] # "None"
              /\ handle_message_with(k, u, t, client)
              /\ UNCHANGED seen
        \/ (\E u \in Users, data \in Keys \ {"ask_ai"} : handle_callback(k, u, data))
              /\ UNCHANGED seen
        \/ callback_branch_with(k, client) /\ UNCHANGED seen
        \/ (\E o \in SearchOutcomes : buscar_shopee_scraping(k, o)) /\ UNCHANGED seen
        \/ (\E o \in DealsOutcomes : buscar_discount_api_real(k, o)) /\ UNCHANGED seen
        \/ reply_sent(k) /\ UNCHANGED seen

(***************************************************************************)
(* Handlers of one user interleaved: an update is dispatched to any free   *)
(* slot while the handler in the other slot waits for a network call       *)
(* (Application.builder().concurrent_updates(True), or handlers run with   *)
(* block=False)                                                            *)
(***************************************************************************)
\* the events interleaved: the selections that ask for a text, one that
\* asks for none, and a text
ConcurrentKeys == {"shopee_search", "add_purchase", "ask_ai", "deals"}

ConcurrentTexts == {TextTwo}

NextConcurrent ==
    \E k \in Slots :
        \/ \E u \in Tracked, t \in ConcurrentTexts :
              handle_message(k, u, t) /\ seen' = TextSeen(u)
        \/ (\E u \in Tracked, data \in ConcurrentKeys : handle_callback(k, u, data))
              /\ UNCHANGED seen
        \/ callback_branch(k) /\ seen' = BranchSeen(k)
        \/ (\E o \in SearchOutcomes : buscar_shopee_scraping(k, o)) /\ UNCHANGED seen
        \/ (\E o \in DealsOutcomes : buscar_discount_api_real(k, o)) /\ UNCHANGED seen
        \/ analisar_com_ia(k) /\ UNCHANGED seen
        \/ (\E o \in CompletionOutcomes : completion_returns(k, o)) /\ UNCHANGED seen
        \/ reply_sent(k) /\ UNCHANGED seen

SpecConcurrent == Init /\ [][NextConcurrent]_vars

(***************************************************************************)
(* Vocabulary of the properties                                            *)
(***************************************************************************)
TextEvent(k) == tasks[k].handler = "handle_message"

Selection(k) == tasks[k].handler = "handle_callback"

Command(k) == tasks[k].handler \in {"start", "help_command"}

Returned(k) == tasks[k].pc = "done"

Kinds(msgs) == [i \in 1..Len(msgs) |-> msgs[i].kind]

Hyphens(text) == {i \in 1..Len(text) : text[i] = "-"}

\* a text read as 'product - value - category' with the hyphens at i and j
ProductAt(text, i) == Strip(SubSeq(text, 1, i - 1))

ValueAt(text, i, j) == ReplaceComma(Strip(SubSeq(text, i + 1, j - 1)))

CategoryAt(text, j) == Strip(SubSeq(text, j + 1, Len(text)))

\* a decimal number, written with a period
Numeric(s) == IsDecimal(Unsigned(s))

\* the table is db with one row more, owned by u, with these fields
AddedOne(db, u, produto, valor, categoria) ==
    /\ Len(purchases) = Len(db) + 1
    /\ SubSeq(purchases, 1, Len(db)) = db
    /\ purchases[Len(purchases)].user_id = u
    /\ purchases[Len(purchases)].product = produto
    /\ purchases[Len(purchases)].value = valor
    /\ purchases[Len(purchases)].category = categoria

(***************************************************************************)
(* C1. A text handled in waiting_purchase that reads as a triple product - *)
(* numeric value - category, the product and the category being any text   *)
(* (hyphens included), adds exactly one row with that owner, product,      *)
(* value and category, and leaves the user's state None.                   *)
(* Violated: the text is split at every hyphen (line 240), so a hyphen in  *)
(* a field, or a minus sign, makes four parts and the text is refused.     *)
(***************************************************************************)
C1_EveryTripleSaved ==
    \A k \in Slots :
        (TextEvent(k) /\ tasks[k].state = "waiting_purchase" /\ Returned(k)) =>
            \A i \in Hyphens(tasks[k].text), j \in Hyphens(tasks[k].text) :
                (i < j /\ Numeric(ValueAt(tasks[k].text, i, j))) =>
                    /\ AddedOne(tasks[k].db0, tasks[k].user,
                                ProductAt(tasks[k].text, i),
                                FloatValue(ValueAt(tasks[k].text, i, j)),
                                CategoryAt(tasks[k].text, j))
                    /\ user_data[tasks[k].user] = "None"

(***************************************************************************)
(* C2. A text handled in waiting_purchase whose number of hyphen-separated *)
(* fields is not 3 leaves the table as it was, is answered by the format   *)
(* error and nothing else, and leaves the user's state None.               *)
(***************************************************************************)
C2_WrongFieldCount ==
    \A k \in Slots :
        (/\ TextEvent(k)
         /\ tasks[k].state = "waiting_purchase"
         /\ tasks[k].pc # "idle"
         /\ Cardinality(Hyphens(tasks[k].text)) + 1 # 3) =>
            /\ purchases = tasks[k].db0
            /\ user_data[tasks[k].user] = "None"
            /\ tasks[k].calls = <<>>
            /\ Kinds(tasks[k].sent \o (IF Returned(k) THEN <<>> ELSE <<tasks[k].out>>))
                 = <<"invalid_format">>

C2_Witness ==
    \E k \in Slots :
        /\ TextEvent(k)
        /\ tasks[k].state = "waiting_purchase"
        /\ Returned(k)
        /\ Cardinality(Hyphens(tasks[k].text)) = 3
        /\ Kinds(tasks[k].sent) = <<"invalid_format">>

(***************************************************************************)
(* C3. A text handled in waiting_purchase with exactly 3 fields whose      *)
(* value field, commas turned into periods, is not a number leaves the     *)
(* table as it was and is answered by the value error.                     *)
(* Violated: float() accepts "nan" (line 246), so 'a - nan - b' is saved   *)
(* with the value NaN and confirmed.                                       *)
(***************************************************************************)
C3_NonNumericRefused ==
    \A k \in Slots :
        (/\ TextEvent(k)
         /\ tasks[k].state = "waiting_purchase"
         /\ Returned(k)
         /\ Cardinality(Hyphens(tasks[k].text)) = 2
         /\ ~Numeric(ReplaceComma(Parts(tasks[k].text)[2]))) =>
            /\ purchases = tasks[k].db0
            /\ Kinds(tasks[k].sent) = <<"invalid_value">>

(***************************************************************************)
(* C4. After a shopee_search selection the user's first text event is      *)
(* handled as the search term: it calls the Shopee search and leaves the   *)
(* state None. The user's next text event, with no prompt-setting          *)
(* selection in between, is handled with state None: it never calls the    *)
(* search and is answered by the AI flow or the unrecognized-command text  *)
(* (by the progress notice alone when the AI flow raises).                 *)
(***************************************************************************)
C4_SingleUse ==
    \A k \in Slots :
        (TextEvent(k) /\ tasks[k].pc # "idle") =>
            /\ (tasks[k].nth = 1 =>
                  /\ tasks[k].state = "waiting_shopee_term"
                  /\ tasks[k].calls = <<"search">>
                  /\ user_data[tasks[k].user] = "None")
            /\ (tasks[k].nth = 2 =>
                  /\ tasks[k].state = "None"
                  /\ \A i \in 1..Len(tasks[k].calls) : tasks[k].calls[i] # "search"
                  /\ user_data[tasks[k].user] = "None"
                  /\ (Returned(k) =>
                        tasks[k].sent[Len(tasks[k].sent)].kind
                            \in {"ai_answer", "ai_error", "unrecognized"}
                                 \cup (IF tasks[k].raised THEN {"ai_progress"} ELSE {})))

C4_Witness ==
    \E k \in Slots :
        /\ TextEvent(k)
        /\ Returned(k)
        /\ tasks[k].nth = 2
        /\ tasks[k].state = "None"

(***************************************************************************)
(* C5 as claimed. With openai_client None, an ask_ai selection made in any *)
(* pending state is answered by the AI-disabled text and the user's state  *)
(* is None after it.                                                       *)
(* Violated: the branch returns without assigning the state (lines         *)
(* 314-316), so a prompt that was pending is still pending.                *)
(***************************************************************************)
C5_StateNoneAfterAskAi ==
    ~openai_client =>
        \A k \in Slots :
            (Selection(k) /\ tasks[k].data = "ask_ai" /\ Returned(k)) =>
                /\ Kinds(tasks[k].sent) = <<"ai_disabled">>
                /\ user_data[tasks[k].user] = "None"

(***************************************************************************)
(* C5 as amended. With openai_client None, an ask_ai selection is answered *)
(* by the AI-disabled text and leaves the user's state as it was before    *)
(* the selection (None if it was None); it is never waiting_ai_prompt.     *)
(***************************************************************************)
C5_StateKeptAfterAskAi ==
    ~openai_client =>
        \A k \in Slots :
            (Selection(k) /\ tasks[k].data = "ask_ai" /\ Returned(k)) =>
                /\ Kinds(tasks[k].sent) = <<"ai_disabled">>
                /\ user_data[tasks[k].user] = tasks[k].state
                /\ user_data[tasks[k].user] # "waiting_ai_prompt"

C5_Witness ==
    /\ ~openai_client
    /\ \E k \in Slots :
          /\ Selection(k)
          /\ tasks[k].data = "ask_ai"
          /\ Returned(k)
          /\ tasks[k].state = "waiting_purchase"

(***************************************************************************)
(* C6. While a text event that found a pending state is past its entry (a  *)
(* search or completion request in progress, a row written, a message      *)
(* being sent or sent), the user's state is already None.                  *)
(***************************************************************************)
C6_ClearedBeforeCalls ==
    \A k \in Slots :
        (/\ TextEvent(k)
         /\ tasks[k].state # "None"
         /\ \/ tasks[k].pc \in {"search", "progress", "completion", "reply", "done"}
            \/ tasks[k].calls # <<>>
            \/ tasks[k].sent # <<>>
            \/ purchases # tasks[k].db0) =>
            user_data[tasks[k].user] = "None"

C6_Witness ==
    \E k \in Slots :
        /\ TextEvent(k)
        /\ tasks[k].state = "waiting_ai_prompt"
        /\ tasks[k].pc = "completion"
        /\ user_data[tasks[k].user] = "None"

(***************************************************************************)
(* C7. /start and /help answer with the menu and the guide in every        *)
(* pending state, make no request, and leave the user's pending state and  *)
(* the table as they were.                                                 *)
(***************************************************************************)
C7_CommandsKeepState ==
    \A k \in Slots :
        (Command(k) /\ tasks[k].pc # "idle") =>
            /\ user_data[tasks[k].user] = tasks[k].state
            /\ purchases = tasks[k].db0
            /\ tasks[k].calls = <<>>
            /\ Kinds(tasks[k].sent \o (IF Returned(k) THEN <<>> ELSE <<tasks[k].out>>))
                 = <<IF tasks[k].handler = "start" THEN "menu" ELSE "help">>

C7_Witness ==
    \E k \in Slots :
        /\ tasks[k].handler = "start"
        /\ Returned(k)
        /\ tasks[k].state = "waiting_purchase"
        /\ user_data[tasks[k].user] = "waiting_purchase"

(***************************************************************************)
(* C8. A selection of deals, my_expenses or help leaves the user's pending *)
(* state as it was, at every position of the handler.                      *)
(***************************************************************************)
C8_ReadSelectionsKeepState ==
    \A k \in Slots :
        (/\ Selection(k)
         /\ tasks[k].data \in {"deals", "my_expenses", "help"}
         /\ tasks[k].pc # "idle") =>
            user_data[tasks[k].user] = tasks[k].state

C8_Witness ==
    \E k \in Slots :
        /\ Selection(k)
        /\ tasks[k].data = "deals"
        /\ Returned(k)
        /\ tasks[k].state = "waiting_shopee_term"
        /\ user_data[tasks[k].user] = "waiting_shopee_term"

(***************************************************************************)
(* C9 as claimed. Every handler that has returned has sent exactly one     *)
(* message.                                                                *)
(* Violated: the AI flows send "Analisando..." and then the answer (lines  *)
(* 275-277, 282-284), and a key that is no menu option sends nothing.      *)
(***************************************************************************)
C9_ExactlyOneMessage ==
    \A k \in Slots : Returned(k) => Len(tasks[k].sent) = 1

\* a text event that asks the assistant (lines 273-284)
AsksAssistant(k) ==
    /\ TextEvent(k)
    /\ \/ tasks[k].state = "waiting_ai_prompt"
       \/ tasks[k].state = "None" /\ openai_client

(***************************************************************************)
(* C9 as amended. A handler that has returned has sent exactly one         *)
(* message, with three exceptions: a text event that asks the assistant    *)
(* has sent two, the progress notice and then the answer or the error      *)
(* text; a selection whose key is no menu option has sent none; a handler  *)
(* ended by the TypeError of a purchase read back without value (my        *)
(* expenses, or the assistant asked with the key present) has sent what it *)
(* had sent before reading: nothing, or the progress notice.               *)
(***************************************************************************)
C9_MessagesPerEvent ==
    \A k \in Slots :
        Returned(k) =>
            IF tasks[k].raised
            THEN /\ RaisesTypeError(PurchasesOf(tasks[k].user))
                 /\ \/ Selection(k) /\ tasks[k].data = "my_expenses"
                       /\ tasks[k].sent = <<>>
                    \/ AsksAssistant(k) /\ openai_client
                       /\ Kinds(tasks[k].sent) = <<"ai_progress">>
            ELSE IF AsksAssistant(k)
            THEN /\ Len(tasks[k].sent) = 2
                 /\ tasks[k].sent[1].kind = "ai_progress"
                 /\ tasks[k].sent[2].kind \in {"ai_answer", "ai_error", "ai_disabled"}
            ELSE IF Selection(k) /\ tasks[k].data \notin MenuKeys
            THEN tasks[k].sent = <<>>
            ELSE Len(tasks[k].sent) = 1 /\ tasks[k].sent[1].kind # ""

C9_Witness ==
    \E k \in Slots :
        /\ Returned(k)
        /\ AsksAssistant(k)
        /\ Kinds(tasks[k].sent) = <<"ai_progress", "ai_error">>

\* the purchase text of the parsing rule: three fields, a decimal value
WellFormed(text) ==
    /\ Cardinality(Hyphens(text)) = 2
    /\ Numeric(ReplaceComma(Parts(text)[2]))

\* this step is the entry of a text event found in waiting_purchase
PurchaseEntryStep ==
    \E k \in Slots :
        /\ tasks'[k] # tasks[k]
        /\ tasks'[k].handler = "handle_message"
        /\ tasks'[k].state = "waiting_purchase"
        /\ tasks'[k].pc = "reply"
        /\ tasks[k].pc \in {"idle", "done"}

(***************************************************************************)
(* C10. The table changes only at a well-formed text handled in            *)
(* waiting_purchase, which appends one row with an id no row has; every    *)
(* other step leaves the table as it was.                                  *)
(* Violated through the defect of C3: 'a - nan - b' is no well-formed      *)
(* purchase text and a row is appended.                                    *)
(***************************************************************************)
C10_OnlyWellFormedWrites ==
    [][IF PurchaseEntryStep /\ (\E k \in Slots : WellFormed(tasks'[k].text))
       THEN /\ Len(purchases') = Len(purchases) + 1
            /\ SubSeq(purchases', 1, Len(purchases)) = purchases
            /\ \A i \in 1..Len(purchases) :
                  purchases[i].id # purchases'[Len(purchases')].id
       ELSE purchases' = purchases]_vars

(***************************************************************************)
(* C11. Two selections of my_expenses by one user with no write to the     *)
(* table between them, whatever commands, selections and texts that write  *)
(* nothing come in between, are answered alike: the same message with the  *)
(* same total, count and lines in the same order.                          *)
(***************************************************************************)
C11_SameSummaryTwice ==
    \A u \in Users :
        Len(seen[u].exp) = 2 => seen[u].exp[1] = seen[u].exp[2]

C11_Witness ==
    \E u \in Users :
        /\ Len(seen[u].exp) = 2
        /\ seen[u].exp[2].out.kind = "expenses"
        /\ seen[u].exp[2].out.args[2] = 2
        /\ user_data[u] = "waiting_shopee_term"

\* the rows of table db owned by user u, in the order of the table
Owned(db, u) == SelectSeq(db, LAMBDA p : p.user_id = u)

\* a selection of my_expenses that has ended
ExpensesEnded(k) ==
    Selection(k) /\ tasks[k].data = "my_expenses" /\ Returned(k)

(***************************************************************************)
(* C12. A selection of my_expenses is answered by the no-purchases text,   *)
(* with no total and no count, when the selecting user owns no row of the  *)
(* table (whatever the other users own), and by the summary when the user  *)
(* owns at least one.                                                      *)
(* Violated through the defect of C3: the row saved from 'a - nan - b' is  *)
(* read back with value None, sum() raises TypeError (line 332) and the    *)
(* selection is answered by nothing.                                       *)
(***************************************************************************)
C12_SummaryIffOwnsOne ==
    \A k \in Slots :
        ExpensesEnded(k) =>
            IF Owned(tasks[k].db0, tasks[k].user) = <<>>
            THEN tasks[k].sent = <<Msg("no_purchases", <<>>)>>
            ELSE Kinds(tasks[k].sent) = <<"expenses">>

\* row p is listed before row q: it was recorded later
MoreRecent(p, q) == p.date > q.date

\* the lines are those of rows of the user, most recent first, and no row
\* left out is more recent than a row listed
MostRecentFirst(lines, rows) ==
    \E f \in [1..Len(lines) -> 1..Len(rows)] :
        /\ \A j \in 1..Len(lines) : lines[j] = Line(rows[f[j]])
        /\ \A i, j \in 1..Len(lines) : i < j => MoreRecent(rows[f[i]], rows[f[j]])
        /\ \A n \in 1..Len(rows), j \in 1..Len(lines) :
              (\A i \in 1..Len(lines) : f[i] # n) => MoreRecent(rows[f[j]], rows[n])

(***************************************************************************)
(* C13. For a user who owns at least one row, my_expenses reports the sum  *)
(* of the values of all the user's rows, their number, and the lines of    *)
(* min(5, count) rows: the user's most recent ones, most recent first.     *)
(* Violated through the defect of C3: with a row saved from 'a - nan - b'  *)
(* no total is reported at all (TypeError at line 332).                    *)
(***************************************************************************)
C13_TotalCountAndLatest ==
    \A k \in Slots :
        (ExpensesEnded(k) /\ Owned(tasks[k].db0, tasks[k].user) # <<>>) =>
            LET rows == Owned(tasks[k].db0, tasks[k].user)
            IN /\ Kinds(tasks[k].sent) = <<"expenses">>
               /\ tasks[k].sent[1].args[1] = Fmt2(Sum(rows))
               /\ tasks[k].sent[1].args[2] = Len(rows)
               /\ Len(tasks[k].sent[1].args[3])
                     = (IF Len(rows) < 5 THEN Len(rows) ELSE 5)
               /\ MostRecentFirst(tasks[k].sent[1].args[3], rows)

\* the handler in slot k is past an external call, which has returned
PastCall(k) ==
    /\ tasks[k].pc \in {"reply", "done"}
    /\ \E i \in 1..Len(tasks[k].calls) :
          tasks[k].calls[i] \in {"deals", "search", "completion"}

\* the last message of the handler in slot k, sent or being sent
LastMessage(k) ==
    IF tasks[k].pc = "reply" THEN tasks[k].out
    ELSE IF tasks[k].sent # <<>> THEN tasks[k].sent[Len(tasks[k].sent)]
    ELSE NoMsg

(***************************************************************************)
(* C14. A handler whose external call (deals, search, completion) has      *)
(* failed goes on to its last message, which is the error text of that     *)
(* call; no exception ends it. After the call, failed or not, the user's   *)
(* pending state and the table are what the handler made of them before    *)
(* the call: the state None for a text event, the state found for a        *)
(* selection of deals, and the table as it was.                            *)
(***************************************************************************)
C14_FailuresRecovered ==
    \A k \in Slots :
        /\ tasks[k].failed =>
              /\ PastCall(k)
              /\ ~tasks[k].raised
              /\ LastMessage(k).kind =
                    (CASE tasks[k].calls[Len(tasks[k].calls)] = "deals" -> "deals_error"
                       [] tasks[k].calls[Len(tasks[k].calls)] = "search" -> "shopee_error"
                       [] OTHER -> "ai_error")
        /\ PastCall(k) =>
              /\ user_data[tasks[k].user]
                    = (IF TextEvent(k) THEN "None" ELSE tasks[k].state)
              /\ purchases = tasks[k].db0

C14_Witness ==
    \E k \in Slots :
        /\ tasks[k].failed
        /\ Returned(k)
        /\ tasks[k].state = "waiting_shopee_term"
        /\ Kinds(tasks[k].sent) = <<"shopee_error">>
        /\ purchases # <<>>

\* the messages of the handler in slot k, sent or being sent
Messages(k) ==
    tasks[k].sent \o (IF tasks[k].pc \in {"reply", "progress"} THEN <<tasks[k].out>> ELSE <<>>)

(***************************************************************************)
(* C15. A text event handled with no pending state leaves the state None   *)
(* and the table as it was. With the assistant available the text is       *)
(* passed to analisar_com_ia: the handler never searches, and its          *)
(* completion request carries the text as the question. With the assistant *)
(* unavailable the handler makes no call at all (no search, no read or     *)
(* write of the table, no completion request) and answers with the         *)
(* unrecognized-command text alone.                                        *)
(***************************************************************************)
C15_TextWithoutPrompt ==
    \A k \in Slots :
        (TextEvent(k) /\ tasks[k].state = "None" /\ tasks[k].pc # "idle") =>
            /\ user_data[tasks[k].user] = "None"
            /\ purchases = tasks[k].db0
            /\ IF openai_client
               THEN /\ tasks[k].pc \in {"progress", "completion", "reply", "done"}
                    /\ Messages(k)[1].kind = "ai_progress"
                    /\ tasks[k].pc # "progress" =>
                          \/ /\ tasks[k].calls = <<"db_read", "completion">>
                             /\ tasks[k].request[1] = tasks[k].text
                          \/ /\ tasks[k].raised
                             /\ tasks[k].calls = <<"db_read">>
               ELSE /\ tasks[k].calls = <<>>
                    /\ tasks[k].request = <<>>
                    /\ Kinds(Messages(k)) = <<"unrecognized">>

C15_Witness ==
    \E k \in Slots :
        /\ TextEvent(k)
        /\ tasks[k].state = "None"
        /\ Returned(k)
        /\ openai_client
        /\ tasks[k].request[1] = Strip(TextTwo)
        /\ Kinds(tasks[k].sent) = <<"ai_progress", "ai_answer">>

\* the pending state a selection asks its text in (none for key "")
StateFor(key) ==
    CASE key = "shopee_search" -> "waiting_shopee_term"
      [] key = "add_purchase" -> "waiting_purchase"
      [] key = "ask_ai" -> "waiting_ai_prompt"
      [] OTHER -> "None"

\* this step dispatches a text event to slot k
TextDispatch(k) ==
    /\ tasks[k].pc \in {"idle", "done"}
    /\ tasks'[k] # tasks[k]
    /\ tasks'[k].handler = "handle_message"

\* the activation takes the branch of handle_message for pending state st
Interpreted(task, st) ==
    /\ task.state = st
    /\ CASE st = "waiting_shopee_term" ->
               task.pc = "search" /\ task.calls = <<"search">>
         [] st = "waiting_purchase" ->
               /\ task.pc = "reply"
               /\ task.out.kind \in {"purchase_saved", "invalid_value", "invalid_format"}
         [] st = "waiting_ai_prompt" ->
               task.pc = "progress"
         [] OTHER ->
               \/ task.pc = "progress" /\ openai_client
               \/ task.pc = "reply" /\ task.out.kind = "unrecognized"

(***************************************************************************)
(* C16. After every step each user's pending state is the one asked for by *)
(* the user's latest search, add-purchase or (assistant available) ask-AI  *)
(* selection that no text has answered yet, whatever was pending before    *)
(* that selection; and a text event takes the branch of that selection     *)
(* alone (the branch of no pending state when there is none).              *)
(***************************************************************************)
C16_LatestSelectionDecides ==
    [][/\ \A u \in Users : user_data'[u] = StateFor(seen'[u].sel)
       /\ \A k \in Slots :
             TextDispatch(k) =>
                 Interpreted(tasks'[k], StateFor(seen[tasks'[k].user].sel))]_vars

C16_Witness ==
    \E k \in Slots :
        /\ Selection(k)
        /\ tasks[k].data = "add_purchase"
        /\ Returned(k)
        /\ tasks[k].state = "waiting_shopee_term"
        /\ seen[tasks[k].user].sel = "add_purchase"
        /\ user_data[tasks[k].user] = "waiting_purchase"

(***************************************************************************)
(* C17. In a run with no ask_ai selection and no text handled while no     *)
(* prompt is pending, every step is also the step the program takes with   *)
(* the key the other way (present for absent, absent for present): the     *)
(* same messages, the same pending states, the same table. The two runs    *)
(* start alike, so they are alike after every event.                       *)
(***************************************************************************)
C17_SameStepWithoutKey == [][NextNoAIWith(~openai_client)]_vars

C17_Witness ==
    /\ ~openai_client
    /\ \E k \in Slots :
          /\ ExpensesEnded(k)
          /\ Kinds(tasks[k].sent) = <<"expenses">>
          /\ user_data[tasks[k].user] = "waiting_shopee_term"

(***************************************************************************)
(* C18. With openai_client None no user's pending state is                 *)
(* waiting_ai_prompt, and no text event is handled in that state: the      *)
(* branch of lines 273-277 is never entered without the assistant.         *)
(***************************************************************************)
C18_NoAiPromptWithoutKey ==
    ~openai_client =>
        /\ \A u \in Users : user_data[u] # "waiting_ai_prompt"
        /\ \A k \in Slots : TextEvent(k) => tasks[k].state # "waiting_ai_prompt"

C18_Witness ==
    /\ ~openai_client
    /\ \E k \in Slots :
          /\ Selection(k)
          /\ tasks[k].data = "ask_ai"
          /\ Returned(k)
          /\ Kinds(tasks[k].sent) = <<"ai_disabled">>
          /\ user_data[tasks[k].user] = "None"

\* the handler in slot k has read the table for the assistant's summary
SummaryRead(k) == TextEvent(k) /\ tasks[k].request # <<>>

(***************************************************************************)
(* C19. A step of a handler run for user a leaves the pending state of     *)
(* every other user as it was and adds to the table at most one row, owned *)
(* by a. What my_expenses answers to a, and the spending summary given to  *)
(* the assistant for a, are what they are for the table without the rows   *)
(* of the other users, so no event of another user changes them.           *)
(***************************************************************************)
C19_UsersIsolated ==
    /\ [][\A k \in Slots :
             tasks'[k] # tasks[k] =>
                 /\ \A b \in Users \ {tasks'[k].user} : user_data'[b] = user_data[b]
                 /\ purchases' # purchases =>
                       /\ Len(purchases') = Len(purchases) + 1
                       /\ SubSeq(purchases', 1, Len(purchases)) = purchases
                       /\ purchases'[Len(purchases')].user_id = tasks'[k].user]_vars
    /\ [](\A k \in Slots :
             /\ (ExpensesEnded(k) /\ ~tasks[k].raised) =>
                   tasks[k].sent =
                      <<IF Owned(tasks[k].db0, tasks[k].user) = <<>>
                        THEN Msg("no_purchases", <<>>)
                        ELSE Msg("expenses",
                                 message_text(OrderByDateDesc(
                                     Owned(tasks[k].db0, tasks[k].user))))>>
             /\ ExpensesEnded(k) =>
                   tasks[k].raised = RaisesTypeError(Owned(tasks[k].db0, tasks[k].user))
             /\ SummaryRead(k) =>
                   tasks[k].request[2]
                      = context_data(Owned(tasks[k].db0, tasks[k].user)))

C19_Witness ==
    \E k \in Slots :
        /\ TextEvent(k)
        /\ Returned(k)
        /\ tasks[k].user = 2
        /\ purchases # tasks[k].db0
        /\ Owned(tasks[k].db0, 1) # <<>>
        /\ user_data[1] = "waiting_shopee_term"
        /\ user_data[2] = "None"

\* this step resumes the text handler in slot k after a network call
TextResumes(k) ==
    /\ tasks[k].handler = "handle_message"
    /\ tasks[k].pc \notin {"idle", "done"}
    /\ tasks'[k] # tasks[k]

(***************************************************************************)
(* C20. With the handlers of a user interleaved at their network calls: a  *)
(* text event that takes the search, purchase or AI-question branch finds  *)
(* a selection of that prompt that no text has answered, and in the same   *)
(* step answers it and leaves the state None, so no second text runs the   *)
(* branch for it; and a step that resumes a text handler after a network   *)
(* call leaves every pending state as it is, also one set by a selection   *)
(* handled since the text was dispatched.                                  *)
(***************************************************************************)
C20_PromptConsumedOnce ==
    [][\A k \in Slots :
          /\ TextDispatch(k) =>
                /\ tasks'[k].state = StateFor(seen[tasks'[k].user].sel)
                /\ seen'[tasks'[k].user].sel = ""
                /\ user_data'[tasks'[k].user] = "None"
          /\ TextResumes(k) => user_data' = user_data]_vars

C20_Witness ==
    \E k \in Slots, j \in Slots :
        /\ TextEvent(k)
        /\ tasks[k].state = "waiting_shopee_term"
        /\ tasks[k].pc = "reply"
        /\ Selection(j)
        /\ tasks[j].data = "add_purchase"
        /\ tasks[j].state = "None"
        /\ Returned(j)
        /\ tasks[j].user = tasks[k].user
        /\ user_data[tasks[k].user] = "waiting_purchase"

====
